---- MODULE Spec2Model ----
(***************************************************************************)
(* Client-side state engine of the HAR reverse-API frontend:               *)
(*   - the persisted application store (lib/store.ts, zustand + persist),  *)
(*   - the job-status poller (lib/hooks.ts useJobStatus, an SWR            *)
(*     subscription keyed by the store's jobId),                           *)
(*   - the components that read the store (HarUploader,                    *)
(*     ApiDescriptionInput, CurlDisplay, ExecutionResults).                *)
(*                                                                         *)
(* Nullable values are options: None is null/undefined, Some(v) a value.   *)
(* String maps (Record<string,string>) are sets of <<key, value>> pairs.   *)
(***************************************************************************)
EXTENDS Integers, Sequences, FiniteSets, TLC

VARIABLES
    store,        \* the zustand state object (AppState data fields)
    storage,      \* the "cloudcruise-storage" snapshot in localStorage
    lastSession,  \* history: the store at the last mutation before a reload
    mounted,      \* the page's components (and their hooks) are mounted
    nextJob,      \* server: number of jobs created so far (job ids are fresh)
    jobStatus,    \* server: status of every job
    cache,        \* SWR cache: key -> [data, error]
    inflight,     \* SWR: status requests on the wire
    timer,        \* SWR: the pending refreshInterval timeout of the hook
    retry,        \* SWR: the pending error-retry timeouts
    outcome,      \* history: the last completed status request: its key,
                  \* whether it succeeded, whether the hook had left its key
    pending,      \* SWR mutations (generate, execute) awaiting their response
    latest,       \* history: per coordinator, its most recent invocation while
                  \* that invocation is awaiting its response
    settled,      \* history: how the last mutation to end ended
    call,         \* lib/api.ts called on its own: the operation, the server's
                  \* response, and what the operation returned or threw
    uploader,     \* HarUploader's useState: error, isUploading
    columnWidths, \* RequestsTable's useState: width of every column
    resizingColumn, \* RequestsTable's useState: the column being dragged
    startX,       \* RequestsTable's useState: clientX of the mousedown
    startWidth,   \* RequestsTable's useState: the column's width then
    listeners,    \* the document's mousemove and mouseup listeners, each
                  \* with the values its closure has captured
    drags,        \* history: the number of mousedowns on a resize handle
    items,        \* RequestsTable's useState: requests, isLoading, error
    itemFetches,  \* api.getJobRequests calls awaiting their response
    itemDeps      \* the [jobId, status?.status] of the last run of the
                  \* effect that fetches the requests

vars == <<store, storage, lastSession, mounted, nextJob, jobStatus,
          cache, inflight, timer, retry, outcome, pending, latest, settled,
          call, uploader, columnWidths, resizingColumn, startX, startWidth,
          listeners, drags, items, itemFetches, itemDeps>>

serverVars == <<nextJob, jobStatus, call>>

swrVars == <<cache, inflight, timer, retry, outcome>>

mutVars == <<pending, latest, settled>>

\* useState of the components: lost on reload, kept across renders
tableVars == <<columnWidths, resizingColumn, startX, startWidth, listeners,
               drags>>

itemVars == <<items, itemFetches, itemDeps>>

localVars == <<uploader, tableVars, itemVars>>

(***************************************************************************)
(* Bounds of the model.                                                    *)
(***************************************************************************)
MaxJobs == 2        \* jobs the server creates in one behaviour
MaxResults == 1     \* distinct generate-match responses
MaxCount == 1       \* cap of executionCount
MaxRetry == 1       \* cap of SWR's error-retry counter
MaxPending == 2     \* calls of one handler awaiting their response at once
MaxDrags == 2       \* mousedowns on a resize handle in one behaviour

None == <<>>
Some(v) == <<v>>

JobIds == 1..MaxJobs
FileNames == {"", "a.har"}
\* texts are sequences of characters
Prompts == {<<>>, <<"g", "o">>}
\* what can be typed into the textarea: a blank text too
TypedPrompts == Prompts \cup {<<" ">>}
DetailsTabs == {"auth", "params"}
ParamsTabs == {"query", "headers"}
ResponseTabs == {"body", "headers"}
QueryData == {{}, {<<"page", "2">>}}
HeaderData == {{}, {<<"Authorization", "Bearer x">>}}
BodyData == {None, Some("{}")}
SettingsArgs == {[timeout |-> 60], [followRedirects |-> FALSE]}
FailureResponse == [success |-> FALSE, error |-> "authentication_error"]
ExecuteResponses == {[success |-> TRUE, error |-> "none"], FailureResponse}
Statuses == {"pending", "processing", "completed", "failed"}

(***************************************************************************)
(* lib/api.ts: the seven operations of the client and the SWR fetcher.  A  *)
(* response of the server is whether its status is 2xx (res.ok) and its    *)
(* body: not JSON, or a JSON object with or without a detail text.         *)
(***************************************************************************)
Details == {"", "Job not found", "Request not found", "Invalid HAR file",
            "Rate limit exceeded", "Internal server error"}

Bodies ==
    {[json |-> None], [json |-> Some([detail |-> None])]}
        \cup {[json |-> Some([detail |-> Some(d)])] : d \in Details}

Responses == [ok : BOOLEAN, body : Bodies]

Operations == {"uploadHar", "urlToHar", "getStatus", "getJobRequests",
               "generateCurl", "getRequestDetails", "executeRequest"}

\* the fixed message of each operation
Fallback(op) ==
    CASE op = "uploadHar" -> "Upload failed"
      [] op = "urlToHar" -> "URL to HAR conversion failed"
      [] op = "getStatus" -> "Failed to fetch status"
      [] op = "getJobRequests" -> "Failed to fetch job requests"
      [] op = "generateCurl" -> "Failed to generate curl"
      [] op = "getRequestDetails" -> "Failed to fetch request details"
      [] op = "executeRequest" -> "Failed to execute request"

\* throw new Error(message)
Throw(message) == [threw |-> TRUE, message |-> message, value |-> None]

\* return res.json(): the decoded body, or the parser's SyntaxError
ResJson(res) ==
    IF res.body.json = None THEN Throw("SyntaxError")
    ELSE [threw |-> FALSE, message |-> "", value |-> res.body.json]

\* await res.json().catch(() => ({ detail: fallback }))
JsonOr(res, fallback) ==
    IF res.body.json = None THEN [detail |-> Some(fallback)]
    ELSE res.body.json[1]

\* JavaScript truthiness of error.detail: undefined and "" are falsy
Truthy(detail) == detail # None /\ detail[1] # ""

\* throw new Error(error.detail || fallback)
ThrowDetail(res, fallback) ==
    LET error == JsonOr(res, fallback) IN
    Throw(IF Truthy(error.detail) THEN error.detail[1] ELSE fallback)

\* Variant of uploadHar that throws its fixed message whatever the body is.
uploadHarFixedMessage(res) ==
    IF ~res.ok THEN Throw(Fallback("uploadHar")) ELSE ResJson(res)

uploadHar(res) ==
    IF ~res.ok THEN ThrowDetail(res, Fallback("uploadHar")) ELSE ResJson(res)

urlToHar(res) ==
    IF ~res.ok THEN ThrowDetail(res, Fallback("urlToHar")) ELSE ResJson(res)

getStatus(res) ==
    IF ~res.ok THEN Throw(Fallback("getStatus")) ELSE ResJson(res)

getJobRequests(res) ==
    IF ~res.ok THEN Throw(Fallback("getJobRequests")) ELSE ResJson(res)

generateCurl(res) ==
    IF ~res.ok THEN ThrowDetail(res, Fallback("generateCurl")) ELSE ResJson(res)

getRequestDetails(res) ==
    IF ~res.ok THEN Throw(Fallback("getRequestDetails")) ELSE ResJson(res)

executeRequest(res) ==
    IF ~res.ok THEN ThrowDetail(res, Fallback("executeRequest"))
    ELSE ResJson(res)

\* the fetcher handed to useSWR
fetcher(res) ==
    IF ~res.ok THEN Throw("Failed to fetch") ELSE ResJson(res)

\* api[op] applied to a response of the server
Perform(op, res) ==
    CASE op = "uploadHar" -> uploadHar(res)
      [] op = "urlToHar" -> urlToHar(res)
      [] op = "getStatus" -> getStatus(res)
      [] op = "getJobRequests" -> getJobRequests(res)
      [] op = "generateCurl" -> generateCurl(res)
      [] op = "getRequestDetails" -> getRequestDetails(res)
      [] op = "executeRequest" -> executeRequest(res)

\* HarUploader: useState(null) for error, useState(false) for isUploading
UploaderInit == [error |-> None, isUploading |-> FALSE]

(***************************************************************************)
(* components/RequestsTable.tsx: the widths of the columns and the drag    *)
(* that resizes one of them.                                               *)
(***************************************************************************)
ColumnKeys == {"method", "domain", "path", "status", "type", "duration"}

InitialWidths == [method |-> 80, domain |-> 150, path |-> 300, status |-> 70,
                  type |-> 120, duration |-> 90]

MinWidth == 50

\* clientX of the mouse events
PointerXs == {0, 60, 100}

Max(a, b) == IF a >= b THEN a ELSE b

\* the three values the resize effect depends on and its listeners capture
Deps(column, x, width) == [column |-> column, startX |-> x, startWidth |-> width]

\* document.addEventListener("mousemove", ...), then ("mouseup", ...)
AddListeners(ls, deps) ==
    ls \o <<[type |-> "mousemove", deps |-> deps],
            [type |-> "mouseup", deps |-> deps]>>

\* the effect's cleanup: both listeners of that run of the effect are removed
RemoveListeners(ls, deps) == SelectSeq(ls, LAMBDA l : l.deps # deps)

\* Variant of RunEffect without the cleanup of the previous run.
RunEffectWithoutCleanup(ls, old, new) ==
    IF new = old \/ new.column = None THEN ls ELSE AddListeners(ls, new)

\* The resize effect after a render: when a dependency has changed, the
\* cleanup of the previous run, then the new run, which returns at once
\* when no column is being resized.
RunEffect(ls, old, new) ==
    IF new = old THEN ls
    ELSE LET cleaned == IF old.column = None THEN ls
                        ELSE RemoveListeners(ls, old)
         IN IF new.column = None THEN cleaned ELSE AddListeners(cleaned, new)

\* Variant of Resized that adds the pointer's travel to the current width.
ResizedFromCurrent(widths, deps, clientX) ==
    [widths EXCEPT ![deps.column[1]] =
        Max(MinWidth, widths[deps.column[1]] + (clientX - deps.startX))]

\* handleMouseMove of one listener
Resized(widths, deps, clientX) ==
    [widths EXCEPT ![deps.column[1]] =
        Max(MinWidth, deps.startWidth + (clientX - deps.startX))]

\* a mousemove of the document runs every mousemove listener, in the order
\* of registration
RECURSIVE Dispatch(_, _, _)
Dispatch(ls, widths, clientX) ==
    IF ls = <<>> THEN widths
    ELSE Dispatch(Tail(ls),
                  IF Head(ls).type = "mousemove"
                  THEN Resized(widths, Head(ls).deps, clientX)
                  ELSE widths,
                  clientX)

\* RequestsTable: useState([]) for requests, false for isLoading, null for
\* error
ItemsInit == [requests |-> <<>>, isLoading |-> FALSE, error |-> None]

\* a new page: the state of a new RequestsTable after the first run of the
\* effect (jobId is null before hydration); the calls of the old page are
\* gone with it
ItemsReset ==
    /\ items' = ItemsInit
    /\ itemFetches' = {}
    /\ itemDeps' = [jobId |-> None, status |-> None]

TableReset ==
    /\ columnWidths' = InitialWidths
    /\ resizingColumn' = None
    /\ startX' = 0
    /\ startWidth' = 0
    /\ listeners' = <<>>
    /\ UNCHANGED drags

(***************************************************************************)
(* lib/store.ts                                                            *)
(***************************************************************************)
initialOverrides == [queryParams |-> {}, headers |-> {}, body |-> None]

DefaultTimeout == 30

initialExecutionSettings == [timeout |-> DefaultTimeout, followRedirects |-> TRUE]

InitialState ==
    [ _hasHydrated |-> FALSE,
      jobId |-> None,
      fileName |-> None,
      totalRequests |-> 0,
      uploadProgress |-> 0,
      promptText |-> <<>>,
      isGenerating |-> FALSE,
      curlCommand |-> None,
      matchedRequest |-> None,
      selectedRequestId |-> None,
      modelUsed |-> None,
      activeDetailsTab |-> "auth",
      activeParamsTab |-> "query",
      activeResponseTab |-> "body",
      overrides |-> initialOverrides,
      executionSettings |-> initialExecutionSettings,
      executionCount |-> 0,
      isExecuting |-> FALSE,
      executionResult |-> None ]

\* zustand's set(partial): a shallow merge of partial into the state
\* (also the object spread { ...a, ...b }).
Merge(state, partial) ==
    [k \in DOMAIN state \cup DOMAIN partial |->
        IF k \in DOMAIN partial THEN partial[k] ELSE state[k]]

setJobId(s, id, fileName, total) ==
    Merge(s, [jobId |-> id, fileName |-> fileName, totalRequests |-> total])

setPromptText(s, text) == Merge(s, [promptText |-> text])

\* Variant of setGenerationResult that does not store the model name.
setGenerationResultWithoutModel(s, curl, request, requestId, model) ==
    Merge(s, [curlCommand |-> Some(curl),
              matchedRequest |-> Some(request),
              selectedRequestId |-> Some(requestId),
              isGenerating |-> FALSE])

setGenerationResult(s, curl, request, requestId, model) ==
    Merge(s, [curlCommand |-> Some(curl),
              matchedRequest |-> Some(request),
              selectedRequestId |-> Some(requestId),
              modelUsed |-> Some(model),
              isGenerating |-> FALSE])

OverrideKey(type) ==
    IF type = "query" THEN "queryParams"
    ELSE IF type = "headers" THEN "headers" ELSE "body"

\* Variant of updateOverrides that starts from the default overrides instead
\* of the current ones.
updateOverridesFromDefaults(s, type, data) ==
    Merge(s, [overrides |-> [initialOverrides EXCEPT ![OverrideKey(type)] = data]])

updateOverrides(s, type, data) ==
    Merge(s, [overrides |-> [s.overrides EXCEPT ![OverrideKey(type)] = data]])

resetOverrides(s) == Merge(s, [overrides |-> initialOverrides])

setActiveDetailsTab(s, tab) == Merge(s, [activeDetailsTab |-> tab])

setActiveParamsTab(s, tab) == Merge(s, [activeParamsTab |-> tab])

setActiveResponseTab(s, tab) == Merge(s, [activeResponseTab |-> tab])

incrementExecutionCount(s) == Merge(s, [executionCount |-> s.executionCount + 1])

\* Variant of setExecutionSettings that stores the partial argument as the
\* whole record.
setExecutionSettingsReplaces(s, settings) ==
    Merge(s, [executionSettings |-> settings])

setExecutionSettings(s, settings) ==
    Merge(s, [executionSettings |-> Merge(s.executionSettings, settings)])

setIsExecuting(s, isExecuting) == Merge(s, [isExecuting |-> isExecuting])

setExecutionResult(s, result) == Merge(s, [executionResult |-> result])

setHasHydrated(s, hasHydrated) == Merge(s, [_hasHydrated |-> hasHydrated])

\* Variant of resetState that leaves executionCount as it is.
resetStateKeepsCount(s) ==
    Merge(s, [ jobId |-> None,
               fileName |-> None,
               totalRequests |-> 0,
               uploadProgress |-> 0,
               promptText |-> <<>>,
               isGenerating |-> FALSE,
               curlCommand |-> None,
               matchedRequest |-> None,
               selectedRequestId |-> None,
               modelUsed |-> None,
               activeDetailsTab |-> "auth",
               activeParamsTab |-> "query",
               activeResponseTab |-> "body",
               overrides |-> initialOverrides,
               executionSettings |-> initialExecutionSettings,
               isExecuting |-> FALSE,
               executionResult |-> None ])

\* Variant of resetState that resets every field, the hydration flag too.
resetStateClearsFlag(s) == Merge(s, InitialState)

resetState(s) ==
    Merge(s, [ jobId |-> None,
               fileName |-> None,
               totalRequests |-> 0,
               uploadProgress |-> 0,
               promptText |-> <<>>,
               isGenerating |-> FALSE,
               curlCommand |-> None,
               matchedRequest |-> None,
               selectedRequestId |-> None,
               modelUsed |-> None,
               activeDetailsTab |-> "auth",
               activeParamsTab |-> "query",
               activeResponseTab |-> "body",
               overrides |-> initialOverrides,
               executionSettings |-> initialExecutionSettings,
               executionCount |-> 0,
               isExecuting |-> FALSE,
               executionResult |-> None ])

\* Variant of partialize that leaves executionCount out of the snapshot.
partializeWithoutCount(state) ==
    [ jobId |-> state.jobId,
      fileName |-> state.fileName,
      totalRequests |-> state.totalRequests,
      promptText |-> state.promptText,
      curlCommand |-> state.curlCommand,
      matchedRequest |-> state.matchedRequest,
      selectedRequestId |-> state.selectedRequestId,
      modelUsed |-> state.modelUsed,
      activeDetailsTab |-> state.activeDetailsTab,
      activeParamsTab |-> state.activeParamsTab,
      activeResponseTab |-> state.activeResponseTab,
      overrides |-> state.overrides,
      executionSettings |-> state.executionSettings,
      executionResult |-> state.executionResult ]

\* persist's partialize: the part of the state written to storage.
partialize(state) ==
    [ jobId |-> state.jobId,
      fileName |-> state.fileName,
      totalRequests |-> state.totalRequests,
      promptText |-> state.promptText,
      curlCommand |-> state.curlCommand,
      matchedRequest |-> state.matchedRequest,
      selectedRequestId |-> state.selectedRequestId,
      modelUsed |-> state.modelUsed,
      activeDetailsTab |-> state.activeDetailsTab,
      activeParamsTab |-> state.activeParamsTab,
      activeResponseTab |-> state.activeResponseTab,
      overrides |-> state.overrides,
      executionSettings |-> state.executionSettings,
      executionCount |-> state.executionCount,
      executionResult |-> state.executionResult ]

\* persist's setItem: the value stored under the name, the snapshot and the
\* version of the options (none given: 0)
setItem(state) == [state |-> partialize(state), version |-> 0]

\* persist's rehydration: the stored snapshot (if any) is merged over the
\* in-memory state, then the onRehydrateStorage callback sets the flag.
onRehydrateStorage(state) == setHasHydrated(state, TRUE)

rehydrate(state, item) ==
    onRehydrateStorage(IF item # None /\ item[1].version = 0
                       THEN Merge(state, item[1].state)
                       ELSE state)

(***************************************************************************)
(* lib/hooks.ts useJobStatus: an SWR subscription.  The key is derived     *)
(* from the job id; SWR keeps one cache entry [data, error] per key and    *)
(* the hook exposes the entry of its current key.                          *)
(***************************************************************************)
PollInterval == 2000

\* useSWR's first argument: jobId ? `/status/${jobId}` : null
SwrKey(jobId) == jobId

\* Variant of refreshInterval that stops only on "completed".
refreshIntervalCompletedOnly(data) ==
    IF data # None /\ data[1].status = "completed"
    THEN 0 ELSE PollInterval

\* Variant of refreshInterval that doubles the delay once a status is known.
refreshIntervalBackoff(data) ==
    IF data # None /\ data[1].status \in {"completed", "failed"}
    THEN 0
    ELSE IF data # None THEN 2 * PollInterval ELSE PollInterval

\* options.refreshInterval
refreshInterval(data) ==
    IF data # None /\ data[1].status \in {"completed", "failed"}
    THEN 0 ELSE PollInterval

\* options.revalidateOnFocus
RevalidateOnFocus == FALSE

\* options.shouldRetryOnError is not given: SWR's default applies
ShouldRetryOnError == TRUE

EmptyCache == [k \in JobIds |-> [data |-> None, error |-> FALSE]]

CachedData(c, key) == IF key = None THEN None ELSE c[key[1]].data

CachedError(c, key) == IF key = None THEN FALSE ELSE c[key[1]].error

\* the hook's return value { data, error }
HookData == CachedData(cache, SwrKey(store.jobId))

HookError == CachedError(cache, SwrKey(store.jobId))

\* the body GET /status/{jobId} answers with
StatusResponse(k) == [job_id |-> k, status |-> jobStatus[k]]

\* SWR's polling effect: it asks refreshInterval for the delay, given the
\* data cached for the key, and arms a timeout unless the delay is 0.
Schedule(key, c) ==
    IF refreshInterval(CachedData(c, key)) # 0
    THEN Some([key |-> key, delay |-> refreshInterval(CachedData(c, key))])
    ELSE None

Requested(key) == \E q \in inflight : Some(q.key) = key

\* SWR's revalidate: nothing without a key; a request already on the wire
\* for the key is shared (dedupe); otherwise the fetcher is called.
Revalidate(key, retryCount) ==
    IF key = None \/ Requested(key)
    THEN inflight
    ELSE inflight \cup {[key |-> key[1], retryCount |-> retryCount]}

\* A render of the components after the store changed to newJobId: the hook
\* is re-evaluated with the new key; on a key change SWR revalidates the new
\* key; the polling effect is torn down (its timeout cleared) and set up again.
Render(newJobId) ==
    IF mounted
    THEN /\ inflight' = IF SwrKey(newJobId) # SwrKey(store.jobId)
                        THEN Revalidate(SwrKey(newJobId), 0)
                        ELSE inflight
         /\ timer' = Schedule(SwrKey(newJobId), cache)
         /\ UNCHANGED <<cache, retry, outcome>>
    ELSE UNCHANGED swrVars

(***************************************************************************)
(* Initial states.  Init is the store on its own (no component mounted);   *)
(* PageInit is the page of app/page.tsx just rendered, with the hook of    *)
(* HarUploader mounted on the key of jobId = null.                         *)
(***************************************************************************)
InitWith(isMounted) ==
    /\ store = InitialState
    /\ storage = None
    /\ lastSession = None
    /\ mounted = isMounted
    /\ pending = {}
    /\ latest = [generate |-> None, execute |-> None]
    /\ settled = None
    /\ call = None
    /\ uploader = UploaderInit
    /\ columnWidths = InitialWidths
    /\ resizingColumn = None
    /\ startX = 0
    /\ startWidth = 0
    /\ listeners = <<>>
    /\ drags = 0
    /\ items = ItemsInit
    /\ itemFetches = {}
    /\ itemDeps = [jobId |-> None, status |-> None]
    /\ nextJob = 0
    /\ jobStatus = [k \in JobIds |-> "none"]
    /\ cache = EmptyCache
    /\ inflight = {}
    /\ timer = IF isMounted THEN Schedule(None, EmptyCache) ELSE None
    /\ retry = {}
    /\ outcome = None

Init == InitWith(FALSE)

PageInit == InitWith(TRUE)

\* The store is created, and rehydrated from localStorage, while the module
\* is loaded: handlers and callers run only once that has happened.
Interactive == store._hasHydrated

\* persist wraps set: every mutation also writes the snapshot to storage.
Persist(s) ==
    /\ store' = s
    /\ storage' = Some(setItem(s))
    /\ lastSession' = None
    /\ Render(s.jobId)
    /\ UNCHANGED mounted

Commit(s) == Persist(s) /\ UNCHANGED <<serverVars, mutVars, localVars>>

(***************************************************************************)
(* Page life cycle.                                                        *)
(***************************************************************************)
Hydrate ==
    /\ ~store._hasHydrated
    /\ store' = rehydrate(store, storage)
    /\ storage' = Some(setItem(store'))
    /\ Render(store'.jobId)
    /\ UNCHANGED <<lastSession, mounted, localVars, mutVars, serverVars>>

\* Variant of Reload in which the new store is created with the stored
\* snapshot already merged in, the flag being left for the later callback.
ReloadRestoresEagerly ==
    /\ store' = IF storage = None THEN InitialState
                ELSE Merge(InitialState, storage[1].state)
    /\ lastSession' = IF store._hasHydrated THEN Some(store) ELSE lastSession
    /\ cache' = EmptyCache
    /\ inflight' = {}
    /\ timer' = IF mounted THEN Schedule(None, EmptyCache) ELSE None
    /\ retry' = {}
    /\ outcome' = None
    /\ pending' = {}
    /\ latest' = [generate |-> None, execute |-> None]
    /\ settled' = None
    /\ uploader' = UploaderInit
    /\ TableReset
    /\ ItemsReset
    /\ UNCHANGED <<storage, mounted, serverVars>>

\* The page is reloaded: memory (store, SWR cache, timers, requests) is
\* lost, localStorage and the server are not.
Reload ==
    /\ store' = InitialState
    /\ lastSession' = IF store._hasHydrated THEN Some(store) ELSE lastSession
    /\ cache' = EmptyCache
    /\ inflight' = {}
    /\ timer' = IF mounted THEN Schedule(None, EmptyCache) ELSE None
    /\ retry' = {}
    /\ outcome' = None
    /\ pending' = {}
    /\ latest' = [generate |-> None, execute |-> None]
    /\ settled' = None
    /\ uploader' = UploaderInit
    /\ TableReset
    /\ ItemsReset
    /\ UNCHANGED <<storage, mounted, serverVars>>

(***************************************************************************)
(* The store's actions, called on the store directly.                      *)
(***************************************************************************)
SetJobId(id, fileName, total) ==
    Interactive /\ Commit(setJobId(store, id, fileName, total))

SetPromptText(text) ==
    Interactive /\ Commit(setPromptText(store, text))

SetGenerationResult(curl, request, requestId, model) ==
    Interactive /\ Commit(setGenerationResult(store, curl, request, requestId, model))

UpdateOverrides(type, data) ==
    Interactive /\ Commit(updateOverrides(store, type, data))

ResetOverrides ==
    Interactive /\ Commit(resetOverrides(store))

SetActiveDetailsTab(tab) ==
    Interactive /\ Commit(setActiveDetailsTab(store, tab))

SetActiveParamsTab(tab) ==
    Interactive /\ Commit(setActiveParamsTab(store, tab))

SetActiveResponseTab(tab) ==
    Interactive /\ Commit(setActiveResponseTab(store, tab))

IncrementExecutionCount ==
    /\ Interactive
    /\ store.executionCount < MaxCount
    /\ Commit(incrementExecutionCount(store))

SetExecutionSettings(settings) ==
    Interactive /\ Commit(setExecutionSettings(store, settings))

SetIsExecuting(isExecuting) ==
    Interactive /\ Commit(setIsExecuting(store, isExecuting))

SetExecutionResult(result) ==
    Interactive /\ Commit(setExecutionResult(store, result))

ResetState ==
    Interactive /\ Commit(resetState(store))

\* the arguments setJobId is called with: a job of the server with its file
\* name, or the cleared job of "Upload different file"
JobArgs ==
    {<<Some(k), Some("a.har"), 0>> : k \in JobIds} \cup {<<None, Some(""), 0>>}

\* the four values a generate-match response r carries
CurlResponse(r) ==
    [curl_command |-> <<"curl", r>>,
     matched_request |-> [url |-> <<"url", r>>, method |-> "GET"],
     request_id |-> r,
     model_used |-> <<"model", r>>]

Next ==
    \/ Hydrate
    \/ Reload
    \/ \E a \in JobArgs : SetJobId(a[1], a[2], a[3])
    \/ \E text \in Prompts : SetPromptText(text)
    \/ \E r \in 1..MaxResults :
          SetGenerationResult(CurlResponse(r).curl_command,
                              CurlResponse(r).matched_request,
                              CurlResponse(r).request_id,
                              CurlResponse(r).model_used)
    \/ \E data \in QueryData : UpdateOverrides("query", data)
    \/ \E data \in HeaderData : UpdateOverrides("headers", data)
    \/ \E data \in BodyData : UpdateOverrides("body", data)
    \/ ResetOverrides
    \/ \E tab \in DetailsTabs : SetActiveDetailsTab(tab)
    \/ \E tab \in ParamsTabs : SetActiveParamsTab(tab)
    \/ \E tab \in ResponseTabs : SetActiveResponseTab(tab)
    \/ IncrementExecutionCount
    \/ \E settings \in SettingsArgs : SetExecutionSettings(settings)
    \/ \E b \in BOOLEAN : SetIsExecuting(b)
    \/ \E result \in {None, Some(FailureResponse)} :
          SetExecutionResult(result)
    \/ ResetState

Spec == Init /\ [][Next]_vars

(***************************************************************************)
(* The page: HarUploader's handlers, the server, and SWR's events for the  *)
(* subscription of useJobStatus.                                           *)
(***************************************************************************)
\* HarUploader.onDrop: the server stores the file as a new job and answers
\* with its id; the handler calls setJobId(result.job_id, file.name, 0).
Upload(fileName) ==
    /\ Interactive /\ mounted
    /\ store.jobId = None
    /\ nextJob < MaxJobs
    /\ nextJob' = nextJob + 1
    /\ jobStatus' = [jobStatus EXCEPT ![nextJob + 1] = "pending"]
    /\ UNCHANGED call
    /\ Persist(setJobId(store, Some(nextJob + 1), Some(fileName), 0))
    /\ uploader' = [error |-> None, isUploading |-> FALSE]
    /\ UNCHANGED <<mutVars, tableVars, itemVars>>

\* onDrop when api.uploadHar throws: the catch block keeps the message in the
\* component's error state, and setJobId is not reached.
UploadRejected(fileName, res) ==
    /\ Interactive /\ mounted
    /\ store.jobId = None
    /\ uploadHar(res).threw
    /\ call' = Some([op |-> "uploadHar", response |-> res,
                     result |-> uploadHar(res)])
    /\ uploader' = [error |-> Some(uploadHar(res).message),
                    isUploading |-> FALSE]
    /\ UNCHANGED <<store, storage, lastSession, mounted, nextJob, jobStatus,
                   swrVars, mutVars, tableVars, itemVars>>

\* the "Upload different file" button: setJobId(null, "", 0)
UploadDifferentFile ==
    /\ Interactive /\ mounted
    /\ store.jobId # None
    /\ Persist(setJobId(store, None, Some(""), 0))
    /\ uploader' = [uploader EXCEPT !.error = None]
    /\ UNCHANGED <<serverVars, mutVars, tableVars, itemVars>>

\* the server works on a job
ServerAdvance(k, status) ==
    /\ \/ jobStatus[k] = "pending" /\ status = "processing"
       \/ jobStatus[k] = "processing" /\ status \in {"completed", "failed"}
    /\ jobStatus' = [jobStatus EXCEPT ![k] = status]
    /\ UNCHANGED <<store, storage, lastSession, mounted, localVars, mutVars, nextJob, call,
                   swrVars>>

\* The refreshInterval timeout expires.  SWR revalidates the key the effect
\* was set up for, unless the key is null or its cache entry holds an error,
\* and schedules the next timeout once the revalidation has ended.
Tick ==
    /\ timer # None
    /\ IF timer[1].key # None /\ ~CachedError(cache, timer[1].key)
       THEN /\ inflight' = Revalidate(timer[1].key, 0)
            /\ timer' = None
       ELSE /\ timer' = Schedule(timer[1].key, cache)
            /\ UNCHANGED inflight
    /\ UNCHANGED <<store, storage, lastSession, mounted, localVars, mutVars, serverVars,
                   cache, retry, outcome>>

\* Variant of FetchSuccess that stores the body under the key the hook has
\* when the response arrives, not under the key of the request.
FetchSuccessIntoCurrentKey(q) ==
    /\ q \in inflight
    /\ cache' = [cache EXCEPT
                    ![IF store.jobId = None THEN q.key ELSE store.jobId[1]] =
                        [data |-> Some(StatusResponse(q.key)), error |-> FALSE]]
    /\ inflight' = inflight \ {q}
    /\ timer' = IF SwrKey(store.jobId) = Some(q.key)
                THEN Schedule(SwrKey(store.jobId), cache')
                ELSE timer
    /\ outcome' = Some([key |-> q.key, ok |-> TRUE,
                         stale |-> SwrKey(store.jobId) # Some(q.key)])
    /\ UNCHANGED <<store, storage, lastSession, mounted, localVars, mutVars, serverVars, retry>>

\* fetcher resolves: the body is stored, and the error cleared, in the cache
\* entry of the key the request was made for.
FetchSuccess(q) ==
    /\ q \in inflight
    /\ cache' = [cache EXCEPT ![q.key] =
                    [data |-> Some(StatusResponse(q.key)), error |-> FALSE]]
    /\ inflight' = inflight \ {q}
    /\ timer' = IF SwrKey(store.jobId) = Some(q.key)
                THEN Schedule(SwrKey(store.jobId), cache')
                ELSE timer
    /\ outcome' = Some([key |-> q.key, ok |-> TRUE,
                         stale |-> SwrKey(store.jobId) # Some(q.key)])
    /\ UNCHANGED <<store, storage, lastSession, mounted, localVars, mutVars, serverVars, retry>>

\* Variant of FetchFail that drops the data of the key along with recording
\* the error.
FetchFailClearsData(q) ==
    /\ q \in inflight
    /\ q.retryCount < MaxRetry
    /\ cache' = [cache EXCEPT ![q.key] = [data |-> None, error |-> TRUE]]
    /\ inflight' = inflight \ {q}
    /\ retry' = IF ShouldRetryOnError /\ SwrKey(store.jobId) = Some(q.key)
                THEN retry \cup {[key |-> q.key, retryCount |-> q.retryCount + 1]}
                ELSE retry
    /\ timer' = IF SwrKey(store.jobId) = Some(q.key)
                THEN Schedule(SwrKey(store.jobId), cache')
                ELSE timer
    /\ outcome' = Some([key |-> q.key, ok |-> FALSE,
                         stale |-> SwrKey(store.jobId) # Some(q.key)])
    /\ UNCHANGED <<store, storage, lastSession, mounted, localVars, mutVars, serverVars>>

\* fetcher throws (res.ok is false, or the network failed): the error is
\* stored in the cache entry of the request's key, next to its data; if the
\* hook still has that key, SWR's onErrorRetry arms a retry timeout.
FetchFail(q) ==
    /\ q \in inflight
    /\ q.retryCount < MaxRetry
    /\ cache' = [cache EXCEPT ![q.key].error = TRUE]
    /\ inflight' = inflight \ {q}
    /\ retry' = IF ShouldRetryOnError /\ SwrKey(store.jobId) = Some(q.key)
                THEN retry \cup {[key |-> q.key, retryCount |-> q.retryCount + 1]}
                ELSE retry
    /\ timer' = IF SwrKey(store.jobId) = Some(q.key)
                THEN Schedule(SwrKey(store.jobId), cache')
                ELSE timer
    /\ outcome' = Some([key |-> q.key, ok |-> FALSE,
                         stale |-> SwrKey(store.jobId) # Some(q.key)])
    /\ UNCHANGED <<store, storage, lastSession, mounted, localVars, mutVars, serverVars>>

\* Variant of RetryFire that revalidates the failed key whether or not a
\* hook is still subscribed to it.
RetryFireAnyKey(r) ==
    /\ r \in retry
    /\ retry' = retry \ {r}
    /\ inflight' = Revalidate(Some(r.key), r.retryCount)
    /\ UNCHANGED <<store, storage, lastSession, mounted, localVars, mutVars, serverVars,
                   cache, timer, outcome>>

\* The retry timeout expires: SWR revalidates the key that failed, if a
\* hook is still subscribed to it.
RetryFire(r) ==
    /\ r \in retry
    /\ retry' = retry \ {r}
    /\ inflight' = IF SwrKey(store.jobId) = Some(r.key)
                   THEN Revalidate(Some(r.key), r.retryCount)
                   ELSE inflight
    /\ UNCHANGED <<store, storage, lastSession, mounted, localVars, mutVars, serverVars,
                   cache, timer, outcome>>

\* the window gets the focus
Focus ==
    /\ mounted
    /\ inflight' = IF RevalidateOnFocus
                   THEN Revalidate(SwrKey(store.jobId), 0)
                   ELSE inflight
    /\ UNCHANGED <<store, storage, lastSession, mounted, localVars, mutVars, serverVars,
                   cache, timer, retry, outcome>>

\* HarUploader renders again for a reason of its own (isUploading, error)
Rerender ==
    /\ Interactive /\ mounted
    /\ Render(store.jobId)
    /\ UNCHANGED <<store, storage, lastSession, mounted, localVars, mutVars, serverVars>>

PollerNext ==
    \/ Hydrate
    \/ Reload
    \/ \E fileName \in FileNames \ {""} : Upload(fileName)
    \/ UploadDifferentFile
    \/ \E k \in JobIds, status \in Statuses : ServerAdvance(k, status)
    \/ Tick
    \/ \E q \in inflight : FetchSuccess(q)
    \/ \E q \in inflight : FetchFail(q)
    \/ \E r \in retry : RetryFire(r)
    \/ Focus
    \/ Rerender

SpecPoller == PageInit /\ [][PollerNext]_vars

(***************************************************************************)
(* The page's consumers of the store: what ApiDescriptionInput,            *)
(* CurlDisplay, ExecutionResults and HarUploader show, and the generate    *)
(* and execute handlers.  A mutation request is [op, arg]; its handler     *)
(* resumes, as the closure it was, when the response arrives.              *)
(***************************************************************************)
\* String.prototype.trim on a sequence of characters
RECURSIVE TrimStart(_)
TrimStart(text) ==
    IF text # <<>> /\ Head(text) = " " THEN TrimStart(Tail(text)) ELSE text

RECURSIVE TrimEnd(_)
TrimEnd(text) ==
    IF text # <<>> /\ text[Len(text)] = " "
    THEN TrimEnd(SubSeq(text, 1, Len(text) - 1))
    ELSE text

Trim(text) == TrimEnd(TrimStart(text))

\* ApiDescriptionInput: the textarea's value
PromptShown == IF store._hasHydrated THEN store.promptText ELSE <<>>

\* ApiDescriptionInput: the character counter
CharCountShown == Len(store.promptText)

\* useSWRMutation's isMutating of the two mutation hooks
IsMutating(op) == \E p \in pending : p.op = op

\* ApiDescriptionInput: the Generate button's disabled attribute
GenerateDisabled ==
    store.jobId = None \/ Trim(store.promptText) = <<>> \/ IsMutating("generate")

\* CurlDisplay renders (and offers Execute) only past its first return
CurlDisplayRendered == store._hasHydrated /\ store.curlCommand # None

\* CurlDisplay: the Execute button's disabled attribute
ExecuteDisabled == store.selectedRequestId = None \/ IsMutating("execute")

\* ExecutionResults renders past its first return
ExecutionResultsRendered == store.isExecuting \/ store.executionResult # None

\* HarUploader shows the dropzone, or the card of the uploaded file
DropzoneShown == store.jobId = None

\* a mutation request: the hook it goes through, the trigger argument, and
\* its rank among the requests of that hook still awaiting their response
SeqsPending(op) == {p.seq : p \in {x \in pending : x.op = op}}

NextSeq(op) ==
    IF SeqsPending(op) = {} THEN 1
    ELSE 1 + CHOOSE n \in SeqsPending(op) : \A m \in SeqsPending(op) : m <= n

Request(op, arg) == [op |-> op, arg |-> arg, seq |-> NextSeq(op)]

\* trigger(arg): the request goes out and is the hook's latest
Trigger(p) ==
    /\ pending' = pending \cup {p}
    /\ latest' = [latest EXCEPT ![p.op] = Some(p)]
    /\ UNCHANGED settled

\* the awaited trigger of request p ends; how is "resolved" or "rejected".
\* Both handlers catch what trigger throws and log it: nothing is raised to
\* the handler's caller.
Settle(p, how, response) ==
    /\ pending' = pending \ {p}
    /\ latest' = IF latest[p.op] = Some(p)
                 THEN [latest EXCEPT ![p.op] = None]
                 ELSE latest
    /\ settled' = Some([request |-> p, how |-> how, response |-> response,
                        raised |-> FALSE])

\* ApiDescriptionInput.handleGenerate up to its await
handleGenerate ==
    /\ ~(store.jobId = None \/ Trim(store.promptText) = <<>>)
    /\ Trigger(Request("generate", <<store.jobId[1], store.promptText>>))
    /\ UNCHANGED <<store, storage, lastSession, mounted, localVars, serverVars, swrVars>>

\* a click on the Generate button
HandleGenerate ==
    /\ mounted
    /\ ~GenerateDisabled
    /\ handleGenerate

\* the server matches one of the requests of the job the call names: the
\* request ids of different jobs are different
ItemId(job, r) == (job - 1) * MaxResults + r

\* handleGenerate after its await: the response is committed
GenerateDone(p, r) ==
    /\ p \in pending /\ p.op = "generate"
    /\ LET result == CurlResponse(ItemId(p.arg[1], r)) IN
       /\ Settle(p, "resolved", Some(result))
       /\ Persist(setGenerationResult(store, result.curl_command,
                                      result.matched_request,
                                      result.request_id,
                                      result.model_used))
    /\ UNCHANGED <<serverVars, localVars>>

\* Variant of GenerateThrow whose catch block drops the stored match result.
GenerateThrowClearsResult(p) ==
    /\ p \in pending /\ p.op = "generate"
    /\ Settle(p, "rejected", None)
    /\ Persist(Merge(store, [curlCommand |-> None, matchedRequest |-> None,
                             selectedRequestId |-> None, modelUsed |-> None]))
    /\ UNCHANGED <<serverVars, localVars>>

\* handleGenerate's catch: the error is logged, the store untouched
GenerateThrow(p) ==
    /\ p \in pending /\ p.op = "generate"
    /\ Settle(p, "rejected", None)
    /\ UNCHANGED <<store, storage, lastSession, mounted, localVars, serverVars, swrVars>>

\* handleExecute without line 46: the previous result stays while executing
handleExecuteKeepsResult ==
    /\ store.selectedRequestId # None
    /\ Trigger(Request("execute", <<store.selectedRequestId[1]>>))
    /\ Persist(setIsExecuting(store, TRUE))
    /\ UNCHANGED <<serverVars, localVars>>

\* CurlDisplay.handleExecute up to its await
handleExecute ==
    /\ store.selectedRequestId # None
    /\ Trigger(Request("execute", <<store.selectedRequestId[1]>>))
    /\ Persist(setExecutionResult(setIsExecuting(store, TRUE), None))
    /\ UNCHANGED <<serverVars, localVars>>

\* a click on the Execute button
HandleExecute ==
    /\ mounted
    /\ CurlDisplayRendered
    /\ ~ExecuteDisabled
    /\ handleExecute

\* Variant of ExecuteDone that treats a structured failure as a thrown call.
ExecuteDoneDropsFailure(p, result) ==
    /\ p \in pending /\ p.op = "execute"
    /\ Settle(p, "resolved", Some(result))
    /\ Persist(setIsExecuting(
           IF result.success THEN setExecutionResult(store, Some(result))
           ELSE store, FALSE))
    /\ UNCHANGED <<serverVars, localVars>>

\* handleExecute after its await: result committed, then the finally block
ExecuteDone(p, result) ==
    /\ p \in pending /\ p.op = "execute"
    /\ Settle(p, "resolved", Some(result))
    /\ Persist(setIsExecuting(setExecutionResult(store, Some(result)), FALSE))
    /\ UNCHANGED <<serverVars, localVars>>

\* Variant of ExecuteThrow without the finally block.
ExecuteThrowKeepsFlag(p) ==
    /\ p \in pending /\ p.op = "execute"
    /\ Settle(p, "rejected", None)
    /\ UNCHANGED <<store, storage, lastSession, mounted, localVars, serverVars,
                   swrVars>>

\* handleExecute's catch and finally
ExecuteThrow(p) ==
    /\ p \in pending /\ p.op = "execute"
    /\ Settle(p, "rejected", None)
    /\ Persist(setIsExecuting(store, FALSE))
    /\ UNCHANGED <<serverVars, localVars>>

GateNext ==
    \/ Hydrate
    \/ Reload
    \/ \E fileName \in FileNames \ {""} : Upload(fileName)
    \/ UploadDifferentFile
    \/ \E text \in TypedPrompts : SetPromptText(text)
    \/ HandleGenerate
    \/ \E p \in pending, r \in 1..MaxResults : GenerateDone(p, r)
    \/ \E p \in pending : GenerateThrow(p)
    \/ HandleExecute
    \/ \E p \in pending, result \in ExecuteResponses : ExecuteDone(p, result)
    \/ \E p \in pending : ExecuteThrow(p)
    \/ \E q \in inflight : FetchSuccess(q)

SpecGate == PageInit /\ [][GateNext]_vars

\* the execute-request call of a handleExecute that is awaiting it completes:
\* it resolves with a response or it throws
ExecuteSettles ==
    \E p \in pending :
       \/ \E result \in ExecuteResponses : ExecuteDone(p, result)
       \/ ExecuteThrow(p)

\* the steps of the page that lead to an execution and end it
ExecuteNext ==
    \/ Hydrate
    \/ Reload
    \/ \E fileName \in FileNames \ {""} : Upload(fileName)
    \/ \E text \in TypedPrompts : SetPromptText(text)
    \/ HandleGenerate
    \/ \E p \in pending, r \in 1..MaxResults : GenerateDone(p, r)
    \/ HandleExecute
    \/ \E p \in pending, result \in ExecuteResponses : ExecuteDone(p, result)
    \/ \E p \in pending : ExecuteThrow(p)
    \/ \E q \in inflight : FetchSuccess(q)

\* the page, with every execute-request call completing
SpecExecute == PageInit /\ [][ExecuteNext]_vars /\ WF_vars(ExecuteSettles)

(***************************************************************************)
(* The two handlers called as functions: a call is not held back by the    *)
(* disabled attribute of its button, only by the handler's own first line. *)
(***************************************************************************)
InvokeGenerate ==
    /\ mounted
    /\ NextSeq("generate") <= MaxPending
    /\ handleGenerate

InvokeExecute ==
    /\ mounted
    /\ CurlDisplayRendered
    /\ NextSeq("execute") <= MaxPending
    /\ handleExecute

CoordinatorNext ==
    \/ Hydrate
    \/ \E fileName \in FileNames \ {""} : Upload(fileName)
    \/ UploadDifferentFile
    \/ \E text \in TypedPrompts : SetPromptText(text)
    \/ InvokeGenerate
    \/ \E p \in pending, r \in 1..MaxResults : GenerateDone(p, r)
    \/ \E p \in pending : GenerateThrow(p)
    \/ InvokeExecute
    \/ \E p \in pending, result \in ExecuteResponses : ExecuteDone(p, result)
    \/ \E p \in pending : ExecuteThrow(p)
    \/ \E q \in inflight : FetchSuccess(q)

SpecCoordinator == PageInit /\ [][CoordinatorNext]_vars

(***************************************************************************)
(* HarUploader with uploads that the server accepts or rejects.            *)
(***************************************************************************)
UploadNext ==
    \/ Hydrate
    \/ \E fileName \in FileNames \ {""} : Upload(fileName)
    \/ \E fileName \in FileNames \ {""}, res \in Responses :
          UploadRejected(fileName, res)
    \/ UploadDifferentFile
    \/ \E q \in inflight : FetchSuccess(q)

SpecUpload == PageInit /\ [][UploadNext]_vars

(***************************************************************************)
(* RequestsTable with its header on screen: the resize handles, and the    *)
(* mouse events of the document.  React runs the effect of a render caused *)
(* by a mouse event before the next event is handled.                      *)
(***************************************************************************)
\* a mousedown on the resize handle of a column
handleMouseDown(column, clientX) ==
    /\ mounted
    /\ drags < MaxDrags
    /\ drags' = drags + 1
    /\ resizingColumn' = Some(column)
    /\ startX' = clientX
    /\ startWidth' = columnWidths[column]
    /\ listeners' = RunEffect(listeners,
                              Deps(resizingColumn, startX, startWidth),
                              Deps(Some(column), clientX, columnWidths[column]))
    /\ UNCHANGED <<store, storage, lastSession, mounted, serverVars, swrVars,
                   mutVars, uploader, itemVars, columnWidths>>

\* Variant of MouseMove whose listeners do not clamp the width.
MouseMoveUnclamped(clientX) ==
    /\ listeners # <<>>
    /\ columnWidths' =
          [columnWidths EXCEPT ![listeners[1].deps.column[1]] =
              listeners[1].deps.startWidth + (clientX - listeners[1].deps.startX)]
    /\ UNCHANGED <<store, storage, lastSession, mounted, serverVars, swrVars,
                   mutVars, uploader, itemVars, resizingColumn, startX, startWidth,
                   listeners, drags>>

\* the mouse moves: the document's mousemove listeners run
MouseMove(clientX) ==
    /\ columnWidths' = Dispatch(listeners, columnWidths, clientX)
    /\ UNCHANGED <<store, storage, lastSession, mounted, serverVars, swrVars,
                   mutVars, uploader, itemVars, resizingColumn, startX, startWidth,
                   listeners, drags>>

\* Variant of MouseUp that leaves the listeners registered.
MouseUpKeepsListeners ==
    /\ resizingColumn' =
          IF \E i \in 1..Len(listeners) : listeners[i].type = "mouseup"
          THEN None ELSE resizingColumn
    /\ UNCHANGED <<store, storage, lastSession, mounted, serverVars, swrVars,
                   mutVars, uploader, itemVars, columnWidths, startX, startWidth,
                   listeners, drags>>

\* a mouse button is released: the document's mouseup listeners run
\* (handleMouseUp), then the effect of the render that follows
MouseUp ==
    /\ resizingColumn' =
          IF \E i \in 1..Len(listeners) : listeners[i].type = "mouseup"
          THEN None ELSE resizingColumn
    /\ listeners' = RunEffect(listeners,
                              Deps(resizingColumn, startX, startWidth),
                              Deps(resizingColumn', startX, startWidth))
    /\ UNCHANGED <<store, storage, lastSession, mounted, serverVars, swrVars,
                   mutVars, uploader, itemVars, columnWidths, startX, startWidth, drags>>

\* the page is left: the components unmount, every effect is cleaned up and
\* the state of the components is dropped
Unmount ==
    /\ mounted
    /\ mounted' = FALSE
    /\ timer' = None
    /\ uploader' = UploaderInit
    /\ columnWidths' = InitialWidths
    /\ resizingColumn' = None
    /\ startX' = 0
    /\ startWidth' = 0
    /\ listeners' = IF resizingColumn = None THEN listeners
                    ELSE RemoveListeners(listeners,
                                         Deps(resizingColumn, startX, startWidth))
    /\ ItemsReset
    /\ UNCHANGED <<store, storage, lastSession, serverVars, mutVars, cache,
                   inflight, retry, outcome, drags>>

ResizeNext ==
    \/ \E column \in ColumnKeys, clientX \in PointerXs :
          handleMouseDown(column, clientX)
    \/ \E clientX \in PointerXs : MouseMove(clientX)
    \/ MouseUp
    \/ Unmount

SpecResize == PageInit /\ [][ResizeNext]_vars

(***************************************************************************)
(* RequestsTable: the effect that fetches the requests of a completed job. *)
(***************************************************************************)
\* the effect's dependencies [jobId, status?.status] in the current render
CurrentDeps ==
    [jobId |-> store.jobId,
     status |-> IF HookData = None THEN None ELSE Some(HookData[1].status)]

\* the body GET /job/{jobId}/requests answers with: the ids of the requests
RequestList(job) == [r \in 1..MaxResults |-> ItemId(job, r)]

\* The effect after a render in which a dependency has changed: the list is
\* emptied unless the job is completed; for a completed job fetchRequests
\* starts and runs to its await.
FetchRequestsEffect ==
    /\ mounted
    /\ CurrentDeps # itemDeps
    /\ itemDeps' = CurrentDeps
    /\ IF store.jobId = None \/ CurrentDeps.status # Some("completed")
       THEN /\ items' = [items EXCEPT !.requests = <<>>]
            /\ UNCHANGED itemFetches
       ELSE /\ items' = [items EXCEPT !.isLoading = TRUE, !.error = None]
            /\ itemFetches' = itemFetches \cup {[job |-> store.jobId[1]]}
    /\ UNCHANGED <<store, storage, lastSession, mounted, serverVars, swrVars,
                   mutVars, uploader, tableVars>>

\* api.getJobRequests resolves: setRequests(data.requests), then finally
FetchRequestsDone(f) ==
    /\ f \in itemFetches
    /\ itemFetches' = itemFetches \ {f}
    /\ items' = [items EXCEPT !.requests = RequestList(f.job),
                              !.isLoading = FALSE]
    /\ UNCHANGED <<store, storage, lastSession, mounted, serverVars, swrVars,
                   mutVars, uploader, tableVars, itemDeps>>

\* api.getJobRequests throws: setError(err.message), then finally
FetchRequestsThrow(f) ==
    /\ f \in itemFetches
    /\ itemFetches' = itemFetches \ {f}
    /\ items' = [items EXCEPT !.error = Some(Fallback("getJobRequests")),
                              !.isLoading = FALSE]
    /\ UNCHANGED <<store, storage, lastSession, mounted, serverVars, swrVars,
                   mutVars, uploader, tableVars, itemDeps>>

\* the effect has run for the current render
EffectSettled == CurrentDeps = itemDeps

\* React runs the effect of a render before it handles the next event or
\* update of the page; the server's own steps wait for nothing.
TableNext ==
    \/ FetchRequestsEffect
    \/ \E k \in JobIds, status \in Statuses : ServerAdvance(k, status)
    \/ EffectSettled /\ Hydrate
    \/ EffectSettled /\ \E fileName \in FileNames \ {""} : Upload(fileName)
    \/ EffectSettled /\ UploadDifferentFile
    \/ EffectSettled /\ Tick
    \/ EffectSettled /\ \E q \in inflight : FetchSuccess(q)
    \/ EffectSettled /\ \E f \in itemFetches : FetchRequestsDone(f)
    \/ EffectSettled /\ \E f \in itemFetches : FetchRequestsThrow(f)

SpecTable == PageInit /\ [][TableNext]_vars

(***************************************************************************)
(* lib/api.ts called on its own: one operation meets one response.         *)
(***************************************************************************)
ApiCall(op, res) ==
    /\ call' = Some([op |-> op, response |-> res, result |-> Perform(op, res)])
    /\ UNCHANGED <<store, storage, lastSession, mounted, localVars, nextJob, jobStatus,
                   swrVars, mutVars>>

FetcherCall(res) ==
    /\ call' = Some([op |-> "fetcher", response |-> res, result |-> fetcher(res)])
    /\ UNCHANGED <<store, storage, lastSession, mounted, localVars, nextJob, jobStatus,
                   swrVars, mutVars>>

ClientNext ==
    \/ \E op \in Operations, res \in Responses : ApiCall(op, res)
    \/ \E res \in Responses : FetcherCall(res)

SpecClient == PageInit /\ [][ClientNext]_vars

(***************************************************************************)
(* The job-status poller.                                                  *)
(***************************************************************************)
Terminal(data) == data # None /\ data[1].status \in {"completed", "failed"}

Polling(data) == data # None /\ data[1].status \in {"pending", "processing"}

\* the status requests a step puts on the wire
Issued == inflight' \ inflight

\* a step in which request q ended with the fetcher throwing
FailStep(q) ==
    /\ q \in inflight /\ q \notin inflight'
    /\ outcome' # None /\ outcome'[1].key = q.key /\ ~outcome'[1].ok

PollDelayFixed ==
    /\ timer # None => timer[1].delay = 2000
    /\ Polling(HookData) =>
          /\ refreshInterval(HookData) = 2000
          /\ ~Requested(SwrKey(store.jobId)) => timer # None

PollDelayReached ==
    /\ Polling(HookData) /\ HookData[1].status = "processing"
    /\ timer # None /\ timer[1].delay = 2000 /\ timer[1].key = store.jobId

\* C3 as stated: with jobId null no status request is outstanding and no
\* timeout is pending.
IdleWithoutJob ==
    store.jobId = None => inflight = {} /\ timer = None

\* C3 amended: a status request is only ever issued for the job id the store
\* holds after the step (so none while jobId is null), and with jobId null
\* the hook exposes neither data nor error.
FetchOnlyForJob ==
    /\ [](store.jobId = None => HookData = None /\ ~HookError)
    /\ [][\A q \in Issued : store'.jobId = Some(q.key)]_vars

OutstandingWithoutJob ==
    /\ store.jobId = None
    /\ inflight # {}
    /\ timer # None

\* C4: when a status request fails, the error is in the error slot of its
\* key, the data of that key is what it was, and, if the hook is still on
\* that key and its status is not completed or failed, a next fetch is
\* scheduled (the retry timeout) and the interval timeout stays armed.
FailureKeepsDataAndPolling ==
    [][\A q \in inflight : FailStep(q) =>
          /\ cache'[q.key].error
          /\ cache'[q.key].data = cache[q.key].data
          /\ (store.jobId = Some(q.key) /\ ~Terminal(cache[q.key].data)) =>
                /\ \E r \in retry' : r.key = q.key
                /\ timer' # None]_vars

FailureReached ==
    /\ store.jobId # None
    /\ outcome # None /\ ~outcome[1].ok /\ Some(outcome[1].key) = store.jobId
    /\ HookError
    /\ Polling(HookData)
    /\ retry # {}

OnlyIntervalFetches ==
    [][Issued # {} =>
          \/ store'.jobId # store.jobId
          \/ timer # None /\ timer' = None]_vars

(***************************************************************************)
(* The store: reset, hydration, persistence.                               *)
(***************************************************************************)
\* the fields the persisted snapshot is documented to hold
PersistedFields ==
    { "jobId", "fileName", "totalRequests", "promptText",
      "curlCommand", "matchedRequest", "selectedRequestId", "modelUsed",
      "overrides", "executionSettings", "executionCount", "executionResult",
      "activeDetailsTab", "activeParamsTab", "activeResponseTab" }

\* C7 as stated: resetState applied to any reachable state gives the initial
\* state, hydration flag (false) included.
ResetYieldsInit == resetState(store) = InitialState

\* C7 amended: resetState applied to any reachable state gives the initial
\* state except for the hydration flag, which keeps the value it had.
ResetYieldsDefaults ==
    resetState(store) = [InitialState EXCEPT !._hasHydrated = store._hasHydrated]

ResetFromDirtyState ==
    /\ store._hasHydrated
    /\ store.jobId # None /\ store.promptText # <<>>
    /\ store.curlCommand # None /\ store.executionResult # None
    /\ store.overrides # initialOverrides
    /\ store.executionSettings # initialExecutionSettings
    /\ store.executionCount > 0 /\ store.isExecuting
    /\ store.activeDetailsTab # "auth"

ReloadRestoresSnapshot ==
    (store._hasHydrated /\ lastSession # None) =>
        /\ \A f \in PersistedFields : store[f] = lastSession[1][f]
        /\ ~store.isGenerating
        /\ ~store.isExecuting

ReloadedWhileExecuting ==
    /\ store._hasHydrated
    /\ lastSession # None
    /\ lastSession[1].isExecuting /\ ~store.isExecuting
    /\ lastSession[1].jobId # None /\ store.jobId = lastSession[1].jobId
    /\ store.executionCount > 0
    /\ store.executionResult # None
    /\ store.overrides # initialOverrides

(***************************************************************************)
(* The hydration gate.                                                     *)
(***************************************************************************)
\* C10: while the hydration flag is false the consumers show no stored
\* prompt, curl command or execution result, the status hook has no key and
\* no request, and no generate or execute mutation is pending; a status
\* request or a mutation is started only in a step that ends hydrated.
GateHoldsBackConsumers ==
    /\ [](~store._hasHydrated =>
            /\ PromptShown = <<>> /\ CharCountShown = 0
            /\ ~CurlDisplayRendered
            /\ ~ExecutionResultsRendered
            /\ DropzoneShown
            /\ SwrKey(store.jobId) = None /\ inflight = {}
            /\ GenerateDisabled
            /\ pending = {})
    /\ [][(Issued # {} \/ pending' \ pending # {}) => store'._hasHydrated]_vars

UnhydratedWithSnapshot ==
    /\ ~store._hasHydrated
    /\ storage # None
    /\ storage[1].state.jobId # None
    /\ storage[1].state.promptText # <<>>
    /\ storage[1].state.curlCommand # None
    /\ storage[1].state.executionResult # None

(***************************************************************************)
(* The store: overrides, execution settings, match result.                 *)
(***************************************************************************)
\* updateOverrides(kind, data) replaces the override field named field and
\* nothing else
ReplacesOnly(kind, field, data) ==
    LET after == updateOverrides(store, kind, data) IN
    /\ DOMAIN after = DOMAIN store
    /\ DOMAIN after.overrides = {"queryParams", "headers", "body"}
    /\ after.overrides[field] = data
    /\ \A f \in {"queryParams", "headers", "body"} \ {field} :
          after.overrides[f] = store.overrides[f]
    /\ \A f \in DOMAIN store \ {"overrides"} : after[f] = store[f]

\* C11: from every reachable state, updateOverrides(kind, data) gives a
\* state in which the override field of that kind (queryParams for query,
\* headers for headers, body for body) is data, the other two override
\* fields are what they were, and every other store field is what it was.
UpdateOverridesFrame ==
    /\ \A data \in QueryData : ReplacesOnly("query", "queryParams", data)
    /\ \A data \in HeaderData : ReplacesOnly("headers", "headers", data)
    /\ \A data \in BodyData : ReplacesOnly("body", "body", data)

HeadersOverridden ==
    /\ store.overrides.headers = {<<"Authorization", "Bearer x">>}
    /\ store.overrides.queryParams # {}
    /\ store.overrides.body # None
    /\ store.jobId # None /\ store.executionCount > 0

\* C12: in every reachable state overrides has exactly the keys queryParams,
\* headers, body and executionSettings exactly the keys timeout,
\* followRedirects; a partial setExecutionSettings keeps both keys; and
\* resetOverrides and resetState leave the records ({}, {}, null) and
\* (30, true).
RecordsKeepKeys ==
    /\ DOMAIN store.overrides = {"queryParams", "headers", "body"}
    /\ DOMAIN store.executionSettings = {"timeout", "followRedirects"}
    /\ \A settings \in SettingsArgs :
          DOMAIN setExecutionSettings(store, settings).executionSettings
              = {"timeout", "followRedirects"}
    /\ resetOverrides(store).overrides
          = [queryParams |-> {}, headers |-> {}, body |-> None]
    /\ resetState(store).overrides
          = [queryParams |-> {}, headers |-> {}, body |-> None]
    /\ resetState(store).executionSettings
          = [timeout |-> 30, followRedirects |-> TRUE]

AllRecordFieldsChanged ==
    /\ store.executionSettings = [timeout |-> 60, followRedirects |-> FALSE]
    /\ store.overrides.queryParams # {}
    /\ store.overrides.headers # {}
    /\ store.overrides.body # None

\* the four match-result fields of a store state
MatchResult(s) ==
    [curlCommand |-> s.curlCommand, matchedRequest |-> s.matchedRequest,
     selectedRequestId |-> s.selectedRequestId, modelUsed |-> s.modelUsed]

NoMatchResult ==
    [curlCommand |-> None, matchedRequest |-> None,
     selectedRequestId |-> None, modelUsed |-> None]

\* the four fields as one generate-match response fills them
MatchResultOf(response) ==
    [curlCommand |-> Some(response.curl_command),
     matchedRequest |-> Some(response.matched_request),
     selectedRequestId |-> Some(response.request_id),
     modelUsed |-> Some(response.model_used)]

\* C13: in every reachable state the four match-result fields are either
\* all null or all non-null, and when non-null they are the four values of
\* one and the same generate-match response.
MatchResultWhole ==
    \/ MatchResult(store) = NoMatchResult
    \/ \E job \in JobIds, r \in 1..MaxResults :
          MatchResult(store) = MatchResultOf(CurlResponse(ItemId(job, r)))

SecondMatchCommitted ==
    /\ store.jobId = Some(2)
    /\ MatchResult(store) = MatchResultOf(CurlResponse(ItemId(2, 1)))
    /\ pending = {}

(***************************************************************************)
(* The generate and execute coordinators.                                  *)
(***************************************************************************)
\* a step in which the awaited call of request p ends the way how says
SettleStep(p, how) ==
    /\ p \in pending /\ p \notin pending'
    /\ settled' # None /\ settled'[1].request = p /\ settled'[1].how = how

\* request p is awaiting its response before and after the step
StaysPending(p) == p \in pending /\ p \in pending'

\* C14: while a generate-match call is awaiting its response the four
\* match-result fields do not change, and the step in which the call rejects
\* leaves the whole store and the stored snapshot as they are (no error is
\* written), with no generate call in flight and isGenerating false after it.
GenerateRejectKeepsStore ==
    /\ [][\A p \in pending : (p.op = "generate" /\ StaysPending(p)) =>
             MatchResult(store') = MatchResult(store)]_vars
    /\ [][\A p \in pending : (p.op = "generate" /\ SettleStep(p, "rejected")) =>
             /\ store' = store
             /\ storage' = storage
             /\ ~IsMutating("generate")'
             /\ ~store'.isGenerating]_vars

GenerateRejectedAfterMatch ==
    /\ settled # None
    /\ settled[1].request.op = "generate" /\ settled[1].how = "rejected"
    /\ MatchResult(store) # NoMatchResult
    /\ ~IsMutating("generate")

\* C15 as stated: isGenerating is true exactly while a generate-match call
\* is awaiting its response, and at most one such call is in flight.
GenerateFlagTracksFlight ==
    /\ store.isGenerating <=> IsMutating("generate")
    /\ Cardinality({p \in pending : p.op = "generate"}) <= 1

\* what a coordinator commits: the match result, or the execution result
Committed(op, s) ==
    IF op = "generate" THEN MatchResult(s)
    ELSE [executionResult |-> s.executionResult]

ExecutingWhileInFlight ==
    /\ [](IsMutating("execute") =>
            store.isExecuting /\ store.executionResult = None)
    /\ [][(\E p \in pending' \ pending : p.op = "execute") =>
            store'.isExecuting /\ store'.executionResult = None]_vars

\* a second execution is in flight after an earlier one committed its result
ExecutingAgain ==
    /\ IsMutating("execute")
    /\ settled # None
    /\ settled[1].request.op = "execute"
    /\ settled[1].how = "resolved"

\* C18: the step in which an execute call resolves commits the response it
\* resolved with, a structured failure like a success, clears isExecuting,
\* changes nothing else in the store and raises nothing to the caller.
StructuredFailureCommitted ==
    [][\A p \in pending :
          (p.op = "execute" /\ SettleStep(p, "resolved")) =>
             /\ settled'[1].response \in {Some(result) : result \in ExecuteResponses}
             /\ store' = [store EXCEPT !.executionResult = settled'[1].response,
                                       !.isExecuting = FALSE]
             /\ ~settled'[1].raised]_vars

\* a structured failure is the committed result of the execution that ended
StructuredFailureShown ==
    /\ settled # None
    /\ settled[1].request.op = "execute"
    /\ settled[1].response = Some(FailureResponse)
    /\ store.executionResult = Some(FailureResponse)
    /\ ~store.isExecuting

\* C19 as stated: the step in which an execute call throws leaves
\* isExecuting false and executionResult null, and raises the error to the
\* caller of handleExecute.
ExecuteThrowSurfaced ==
    [][\A p \in pending :
          (p.op = "execute" /\ SettleStep(p, "rejected")) =>
             /\ ~store'.isExecuting
             /\ store'.executionResult = None
             /\ settled'[1].raised]_vars

\* C20 as stated: each of the seven operations, on a non-success response,
\* throws an error whose message is the detail text of the body when the
\* body decodes to an object with a detail text, and the operation's fixed
\* message when the body cannot be decoded.
ErrorCarriesDetail ==
    (call # None /\ call[1].op \in Operations /\ ~call[1].response.ok) =>
        LET json == call[1].response.body.json
            result == call[1].result
        IN /\ (json # None /\ json[1].detail # None) =>
                 result.threw /\ result.message = json[1].detail[1]
           /\ json = None =>
                 result.threw /\ result.message = Fallback(call[1].op)

\* a step in which onDrop's call of api.uploadHar meets a non-success response
UploadRejectedStep ==
    /\ call' # call
    /\ call'[1].op = "uploadHar"
    /\ ~call'[1].response.ok

Dragging == resizingColumn # None

\* the width the contract gives the dragged column for a pointer at clientX
DraggedWidth(clientX) == Max(50, startWidth + (clientX - startX))

\* C22: while a column is being dragged, a mousemove at clientX sets that
\* column's width to max(50, startWidth + (clientX - startX)) and leaves the
\* other columns' widths unchanged, and no other step of the session changes
\* a width.
PointerMoveResizes ==
    /\ [][\A clientX \in PointerXs :
             (Dragging /\ MouseMove(clientX)) =>
                columnWidths' = [columnWidths EXCEPT ![resizingColumn[1]] =
                                    DraggedWidth(clientX)]]_vars
    /\ [][(Dragging /\ mounted' /\ columnWidths' # columnWidths) =>
             \E clientX \in PointerXs :
                columnWidths' = [columnWidths EXCEPT ![resizingColumn[1]] =
                                    DraggedWidth(clientX)]]_vars

\* the method column, 80 wide at the mousedown, has been dragged 60 to the
\* left and is 50 wide, in a second session after one that widened another
\* column
DraggedToFloor ==
    /\ resizingColumn = Some("method")
    /\ startWidth = 80 /\ startX = 60
    /\ columnWidths.method = 50
    /\ \E k \in ColumnKeys \ {"method"} : columnWidths[k] > InitialWidths[k]

\* C23: columnWidths has exactly the six column keys and every width is at
\* least 50.
WidthsComplete ==
    /\ DOMAIN columnWidths = ColumnKeys
    /\ \A k \in ColumnKeys : columnWidths[k] \in Nat /\ columnWidths[k] >= 50

\* a column is at the floor and another has been resized too
TwoColumnsResized ==
    /\ \E k \in ColumnKeys : columnWidths[k] = 50
    /\ Cardinality({k \in ColumnKeys : columnWidths[k] # InitialWidths[k]}) >= 2
    /\ ~Dragging

\* C24 as stated: a mousedown on a resize handle while a drag session is
\* active leaves the session's column, startX and startWidth as they are.
BeginDragOnlyWhenIdle ==
    [][(Dragging /\ drags' # drags) =>
          /\ resizingColumn' = resizingColumn
          /\ startX' = startX
          /\ startWidth' = startWidth]_vars

\* the pair of listeners the active session has registered
SessionListeners ==
    <<[type |-> "mousemove", deps |-> Deps(resizingColumn, startX, startWidth)],
      [type |-> "mouseup", deps |-> Deps(resizingColumn, startX, startWidth)]>>

\* C25: the document has the mousemove and the mouseup listener of the
\* active session, and no other, exactly while a session is active; after
\* a mouseup and after the unmount of the table it has none.
ListenersOnlyWhileDragging ==
    /\ [](listeners = IF Dragging THEN SessionListeners ELSE <<>>)
    /\ [][(Dragging /\ (~Dragging' \/ ~mounted')) => listeners' = <<>>]_vars

\* a second session is active, after a first one that resized a column, and
\* the document has the one pair of listeners of the second
SecondSessionListening ==
    /\ Dragging
    /\ drags = 2
    /\ columnWidths # InitialWidths
    /\ listeners = SessionListeners

\* C26: a mouseup ends the session, and while no session is active no
\* mousemove, or other event of the mounted table, changes a column width.
ReleaseEndsResizing ==
    /\ [][MouseUp => ~Dragging']_vars
    /\ [][(~Dragging /\ ~Dragging' /\ mounted') =>
             columnWidths' = columnWidths]_vars

\* a session that resized a column has been released
ReleasedAfterResize ==
    /\ mounted
    /\ ~Dragging
    /\ startWidth > 0
    /\ columnWidths # InitialWidths
    /\ listeners = <<>>

\* C27 as stated: whenever jobId is null, totalRequests is 0 and
\* curlCommand, matchedRequest, selectedRequestId, modelUsed and
\* executionResult are null.
NoJobNoJobFields ==
    store.jobId = None =>
        /\ store.totalRequests = 0
        /\ MatchResult(store) = NoMatchResult
        /\ store.executionResult = None

\* C28 as stated: a generate-match response that arrives when the store's
\* jobId is no longer the job the call was made for is not committed.
LateMatchNotCommitted ==
    [][\A p \in pending :
          ( /\ p.op = "generate"
            /\ SettleStep(p, "resolved")
            /\ store.jobId # Some(p.arg[1]) )
          => MatchResult(store') = MatchResult(store)]_vars

\* the job a list of requests was fetched for
ListOwner(requests) == ((requests[1] - 1) \div MaxResults) + 1

\* C29 as stated: once the effect has run, the list is empty when jobId is
\* null or the status is not completed, and a list that is held belongs to
\* the current jobId.
ListOfCurrentJob ==
    EffectSettled =>
        /\ (store.jobId = None \/ CurrentDeps.status # Some("completed")) =>
              items.requests = <<>>
        /\ items.requests # <<>> =>
              store.jobId = Some(ListOwner(items.requests))

\* C30: every state in which isExecuting is true is followed by one in which
\* it is false, given that the execute-request call completes, and
\* isExecuting is true only while such a call is awaiting its response.
ExecutingEnds ==
    /\ store.isExecuting ~> ~store.isExecuting
    /\ [](store.isExecuting => IsMutating("execute"))

\* an execution that threw has ended with isExecuting false, in the session
\* that started it and with no result counted
ThrownExecutionEnded ==
    /\ settled # None
    /\ settled[1].request.op = "execute"
    /\ settled[1].how = "rejected"
    /\ ~store.isExecuting
    /\ lastSession = None
    /\ storage # None /\ storage[1].state.executionCount = 0

====
